---- MODULE Spec2Model ----
(***************************************************************************)
(* Y-14M Instant Pack: the report pipeline of src/app.py.                  *)
(*                                                                         *)
(* A dataset (pandas DataFrame) is a record [cols, rows]: cols is the      *)
(* sequence of column labels, rows the sequence of rows, each row a        *)
(* sequence of cells aligned with cols.  Labels and all other texts are    *)
(* sequences of one-character strings, so that strip/replace/lower and     *)
(* sort_keys are computed.  Numbers are fixed-point with four decimals     *)
(* (the integer n stands for n / Scale); arithmetic is exact decimal       *)
(* arithmetic, which abstracts the binary floating point of numpy.         *)
(***************************************************************************)
EXTENDS Integers, Sequences, FiniteSets, TLC

VARIABLES
    pc,              \* position of the script run
    path,            \* the entry taken: upload, sample or direct
    raw,             \* the frame as read or built, before any renaming
    arg,             \* the frame handed to process_pipeline
    df,              \* the frame the current stage works on
    stages,          \* the stages called so far, in call order
    err,             \* the exception raised, NoError if none
    result,          \* the frame process_pipeline returned
    returned,        \* whether process_pipeline has returned
    reporting_date, product_code, gl_control,
    summary          \* what generate_narrative returned

vars == <<pc, path, raw, arg, df, stages, err, result, returned,
          reporting_date, product_code, gl_control, summary>>

(***************************************************************************)
(* Bounds of the model.                                                    *)
(***************************************************************************)
MaxRows == 2

(***************************************************************************)
(* Texts.                                                                  *)
(***************************************************************************)
UpperCase == <<"A","B","C","D","E","F","G","H","I","J","K","L","M","N","O","P","Q","R","S","T","U","V","W","X","Y","Z">>
LowerCase == <<"a","b","c","d","e","f","g","h","i","j","k","l","m","n","o","p","q","r","s","t","u","v","w","x","y","z">>

\* The printable ASCII characters the model uses, in code point order.
Chars == <<" ","'",",","-",".","0","1","2","3","4","5","6","7","8","9",":","A","B","C","D","E","F","G","H","I","J","K","L","M","N","O","P","Q","R","S","T","U","V","W","X","Y","Z","_","a","b","c","d","e","f","g","h","i","j","k","l","m","n","o","p","q","r","s","t","u","v","w","x","y","z">>

\* Position of a character in code point order (its rank, not its code).
CharRank == [c \in {Chars[i] : i \in DOMAIN Chars} |->
                CHOOSE i \in DOMAIN Chars : Chars[i] = c]

Ord(c) == CharRank[c]

\* str.lower() on one character.
Lower(c) ==
    IF \E i \in DOMAIN UpperCase : UpperCase[i] = c
    THEN LowerCase[CHOOSE i \in DOMAIN UpperCase : UpperCase[i] = c]
    ELSE c

\* str.strip(): leading and trailing blanks removed.
RECURSIVE Strip(_)
Strip(s) ==
    IF s = <<>> THEN s
    ELSE IF Head(s) = " " THEN Strip(Tail(s))
    ELSE IF s[Len(s)] = " " THEN Strip(SubSeq(s, 1, Len(s) - 1))
    ELSE s

\* The three replace calls: blanks, hyphens and underscores are removed.
RemoveSeparators(s) == SelectSeq(s, LAMBDA c : c \notin {" ", "-", "_"})

\* Python's string order (code point by code point, a prefix first).
RECURSIVE StrLess(_, _)
StrLess(a, b) ==
    IF b = <<>> THEN FALSE
    ELSE IF a = <<>> THEN TRUE
    ELSE IF Head(a) = Head(b) THEN StrLess(Tail(a), Tail(b))
    ELSE Ord(Head(a)) < Ord(Head(b))

\* sep.join(names)
RECURSIVE Join(_, _)
Join(sep, names) ==
    IF names = <<>> THEN <<>>
    ELSE IF Len(names) = 1 THEN names[1]
    ELSE names[1] \o sep \o Join(sep, Tail(names))

\* needle occurs in text
Contains(text, needle) ==
    \E i \in 0..(Len(text) - Len(needle)) :
        SubSeq(text, i + 1, i + Len(needle)) = needle

(***************************************************************************)
(* Canonical column names and configuration.                               *)
(***************************************************************************)
MonthlyIncome == <<"M","o","n","t","h","l","y","I","n","c","o","m","e">>
RevolvingUtil == <<"R","e","v","o","l","v","i","n","g","U","t","i","l">>
DPD30_59 == <<"D","P","D","3","0","_","5","9">>
CurrentBalance == <<"C","u","r","r","e","n","t","B","a","l","a","n","c","e">>
OutstandingBalance == <<"O","u","t","s","t","a","n","d","i","n","g","B","a","l","a","n","c","e">>
ReportingDate == <<"R","e","p","o","r","t","i","n","g","D","a","t","e">>
ProductCode == <<"P","r","o","d","u","c","t","C","o","d","e">>
LineageHash == <<"L","i","n","e","a","g","e","H","a","s","h">>

REQUIRED_COLUMNS == <<MonthlyIncome, RevolvingUtil, DPD30_59>>

DEFAULT_REPORTING_DATE == <<"2","0","2","5","-","0","3","-","3","1">>
DEFAULT_PRODUCT_CODE == <<"C","C","A","R","D">>

(***************************************************************************)
(* Cells.  k is the kind of value: a number, NaN (a missing value) or a    *)
(* text; n is the number (fixed point), s the text.                        *)
(***************************************************************************)
Scale == 100 * 100

Num(n) == [k |-> "num", n |-> n, s |-> <<>>]
NaN == [k |-> "nan", n |-> 0, s |-> <<>>]
Str(s) == [k |-> "str", n |-> 0, s |-> s]

Dollars(d) == Num(d * Scale)

IsNum(c) == c.k = "num"
IsStr(c) == c.k = "str"

(***************************************************************************)
(* Errors and datasets.                                                    *)
(***************************************************************************)
NoError == [kind |-> "none", msg |-> <<>>]
Error(kind, msg) == [kind |-> kind, msg |-> msg]

NoFrame == [cols |-> <<>>, rows |-> <<>>]

\* The positions of the columns labelled name (labels may repeat).
Positions(frame, name) == {i \in DOMAIN frame.cols : frame.cols[i] = name}

\* name in df.columns
HasColumn(frame, name) == Positions(frame, name) # {}

\* df[name] when the label is unique: the cells of that column, by row.
Column(frame, name) ==
    LET i == CHOOSE j \in Positions(frame, name) : TRUE
    IN  [r \in DOMAIN frame.rows |-> frame.rows[r][i]]

\* df[name] = cells: a new column is appended, an existing one replaced.
SetColumn(frame, name, cells) ==
    IF HasColumn(frame, name)
    THEN [frame EXCEPT !.rows =
            [r \in DOMAIN frame.rows |->
                [i \in DOMAIN frame.cols |->
                    IF frame.cols[i] = name THEN cells[r] ELSE frame.rows[r][i]]]]
    ELSE [cols |-> Append(frame.cols, name),
          rows |-> [r \in DOMAIN frame.rows |-> Append(frame.rows[r], cells[r])]]

(***************************************************************************)
(* validate_data                                                           *)
(***************************************************************************)
MissingPrefix == <<"M","i","s","s","i","n","g"," ","r","e","q","u","i","r","e","d"," ","c","o","l","u","m","n","s",":"," ">>

\* [c for c in REQUIRED_COLUMNS if c not in df.columns]
Missing(frame) == SelectSeq(REQUIRED_COLUMNS, LAMBDA c : ~HasColumn(frame, c))

\* A validate_data that reports the first missing column only.
validate_data_first_only(frame) ==
    IF Missing(frame) # <<>>
    THEN Error("ValueError", MissingPrefix \o Missing(frame)[1])
    ELSE NoError

\* A validate_data that computes the missing columns and raises nothing.
validate_data_no_raise(frame) == NoError

\* The error validate_data raises, NoError when it returns True.
validate_data(frame) ==
    IF Missing(frame) # <<>>
    THEN Error("ValueError", MissingPrefix \o Join(<<",", " ">>, Missing(frame)))
    ELSE NoError

(***************************************************************************)
(* Numbers.                                                                *)
(***************************************************************************)
\* round(2) of the fixed-point number n: to the nearest hundredth, a tie to
\* the even hundredth (numpy rounds half to even).
Round2(n) ==
    LET q == n \div 100
        r == n % 100
    IN  IF 2 * r > 100 \/ (2 * r = 100 /\ q % 2 = 1) THEN (q + 1) * 100 ELSE q * 100

\* (a * b).round(2) of two fixed-point numbers.  The exact product a * b has
\* eight decimals; it is split in thousands so that no intermediate value
\* leaves the 32-bit integers of TLC.
MulRound2(a, b) ==
    LET a1 == a \div 1000
        a0 == a % 1000
        b1 == b \div 1000
        b0 == b % 1000
        m  == a1 * b0 + a0 * b1
        t  == (m % 1000) * 1000 + a0 * b0
        q  == a1 * b1 + (m \div 1000) + (t \div 1000000)
        r  == t % 1000000
    IN  IF 2 * r > 1000000 \/ (2 * r = 1000000 /\ q % 2 = 1)
        THEN (q + 1) * 100 ELSE q * 100

\* Series.round(2), cell by cell: a missing value stays missing.
RoundCell(c) == IF IsNum(c) THEN Num(Round2(c.n)) ELSE c

\* Series * Series, then round(2), cell by cell: NaN where either is missing.
MulCell(a, b) == IF IsNum(a) /\ IsNum(b) THEN Num(MulRound2(a.n, b.n)) ELSE NaN

\* The decimal digits of a natural number, and the numeral of an integer.
RECURSIVE Digits(_)
Digits(n) ==
    LET d == SubSeq(Chars, 6 + (n % 10), 6 + (n % 10))
    IN  IF n < 10 THEN d ELSE Digits(n \div 10) \o d

Numeral(n) == IF n < 0 THEN <<"-">> \o Digits(0 - n) ELSE Digits(n)

(***************************************************************************)
(* calculate_balances                                                      *)
(***************************************************************************)
\* The text of the TypeError pandas raises on arithmetic over a column that
\* holds texts; it carries neither a column label nor a row index.
PandasTypeErrorText == <<"E","x","p","e","c","t","e","d"," ","n","u","m","e","r","i","c"," ","d","t","y","p","e">>

\* The text of the ValueError pandas raises when a frame with several
\* columns is used where one column is expected.
PandasValueErrorText == <<"C","a","n","n","o","t"," ","s","e","t"," ","a"," ","D","a","t","a","F","r","a","m","e">>

Ok(frame) == [err |-> NoError, frame |-> frame]
Raise(kind, msg) == [err |-> Error(kind, msg), frame |-> NoFrame]

\* df[name] as an operand: the label must exist (KeyError names it), be
\* unique (a frame, not a column, otherwise) and hold no text.
OperandError(frame, name) ==
    IF ~HasColumn(frame, name) THEN Error("KeyError", name)
    ELSE IF Cardinality(Positions(frame, name)) > 1
         THEN Error("ValueError", PandasValueErrorText)
    ELSE IF \E r \in DOMAIN frame.rows : IsStr(Column(frame, name)[r])
         THEN Error("TypeError", PandasTypeErrorText)
    ELSE NoError

FirstError(errors) ==
    IF \E i \in DOMAIN errors : errors[i] # NoError
    THEN errors[CHOOSE i \in DOMAIN errors :
                    /\ errors[i] # NoError
                    /\ \A j \in 1..(i - 1) : errors[j] = NoError]
    ELSE NoError

\* A calculate_balances that falls back, row by row, on the derived formula
\* where the balance is missing.
calculate_balances_per_row(frame) ==
    IF HasColumn(frame, CurrentBalance)
    THEN IF OperandError(frame, CurrentBalance) # NoError
         THEN [err |-> OperandError(frame, CurrentBalance), frame |-> NoFrame]
         ELSE Ok(SetColumn(frame, OutstandingBalance,
                    [r \in DOMAIN frame.rows |->
                        IF IsNum(Column(frame, CurrentBalance)[r])
                        THEN RoundCell(Column(frame, CurrentBalance)[r])
                        ELSE MulCell(Column(frame, MonthlyIncome)[r],
                                     Column(frame, RevolvingUtil)[r])]))
    ELSE LET e == FirstError(<<OperandError(frame, MonthlyIncome),
                               OperandError(frame, RevolvingUtil)>>)
         IN  IF e # NoError
             THEN [err |-> e, frame |-> NoFrame]
             ELSE Ok(SetColumn(frame, OutstandingBalance,
                        [r \in DOMAIN frame.rows |->
                            MulCell(Column(frame, MonthlyIncome)[r],
                                    Column(frame, RevolvingUtil)[r])]))

calculate_balances(frame) ==
    IF HasColumn(frame, CurrentBalance)
    THEN IF OperandError(frame, CurrentBalance) # NoError
         THEN [err |-> OperandError(frame, CurrentBalance), frame |-> NoFrame]
         ELSE Ok(SetColumn(frame, OutstandingBalance,
                    [r \in DOMAIN frame.rows |->
                        RoundCell(Column(frame, CurrentBalance)[r])]))
    ELSE LET e == FirstError(<<OperandError(frame, MonthlyIncome),
                               OperandError(frame, RevolvingUtil)>>)
         IN  IF e # NoError
             THEN [err |-> e, frame |-> NoFrame]
             ELSE Ok(SetColumn(frame, OutstandingBalance,
                        [r \in DOMAIN frame.rows |->
                            MulCell(Column(frame, MonthlyIncome)[r],
                                    Column(frame, RevolvingUtil)[r])]))

(***************************************************************************)
(* add_metadata                                                            *)
(***************************************************************************)
HashLen == 8

HexDigits == <<"0","1","2","3","4","5","6","7","8","9","a","b","c","d","e","f">>

\* r.to_dict(): label -> cell; of several columns with one label the last.
ToDict(cols, row) ==
    [name \in {cols[i] : i \in DOMAIN cols} |->
        row[CHOOSE i \in DOMAIN cols :
                /\ cols[i] = name
                /\ \A j \in DOMAIN cols : cols[j] = name => j <= i]]

\* The keys of a dict in the order cols lists them (insertion order).
RECURSIVE KeyOrder(_)
KeyOrder(cols) ==
    IF cols = <<>> THEN <<>>
    ELSE LET rest == KeyOrder(SubSeq(cols, 1, Len(cols) - 1))
             last == cols[Len(cols)]
         IN  IF \E i \in DOMAIN rest : rest[i] = last THEN rest
             ELSE Append(rest, last)

\* sorted(keys)
RECURSIVE SortKeys(_)
SortKeys(keys) ==
    IF keys = {} THEN <<>>
    ELSE LET least == CHOOSE k \in keys : \A o \in keys \ {k} : StrLess(k, o)
         IN  <<least>> \o SortKeys(keys \ {least})

\* One value as JSON text: a number by its numeral, a missing value as NaN,
\* a text between quotes.
JsonValue(c) ==
    IF c.k = "num" THEN Numeral(c.n)
    ELSE IF c.k = "nan" THEN <<"N","a","N">>
    ELSE <<"'">> \o c.s \o <<"'">>

\* The items of the dict, each as the text key:value, in the order keys
\* lists them; the JSON text is their concatenation.
JsonItems(d, keys) ==
    [i \in DOMAIN keys |->
        <<"'">> \o keys[i] \o <<"'", ":">> \o JsonValue(d[keys[i]])
        \o (IF i < Len(keys) THEN <<",">> ELSE <<>>)]

\* json.dumps without sort_keys: the items in insertion order.
JsonDumpsUnsorted(d, keys) == JsonItems(d, keys)

\* json.dumps(d, sort_keys=True, default=str); keys is the insertion order
\* of d, which sort_keys overrides.
JsonDumps(d, keys) == JsonItems(d, SortKeys(DOMAIN d))

\* One 16-bit word of the digest: a fold over the characters of a text.
RECURSIVE Fold(_, _, _)
Fold(text, h, mult) ==
    IF text = <<>> THEN h
    ELSE LET next == (h * mult + Ord(Head(text))) % (256 * 256)
         IN  IF next < 0 THEN next ELSE Fold(Tail(text), next, mult)

\* The fold continued over the items of a JSON text, first to last.
RECURSIVE FoldItems(_, _, _)
FoldItems(items, h, mult) ==
    IF items = <<>> THEN h
    ELSE LET next == Fold(Head(items), h, mult)
         IN  IF next < 0 THEN next ELSE FoldItems(Tail(items), next, mult)

HexWord(w) ==
    <<HexDigits[((w \div 4096) % 16) + 1], HexDigits[((w \div 256) % 16) + 1],
      HexDigits[((w \div 16) % 16) + 1], HexDigits[(w % 16) + 1]>>

\* hashlib.sha256(text).hexdigest(), abstracted to four words: a fixed
\* function of the text that depends on the order of its characters.
Sha256Hex(items) ==
    HexWord(FoldItems(items, 7, 31)) \o HexWord(FoldItems(items, 11, 37))
    \o HexWord(FoldItems(items, 13, 41)) \o HexWord(FoldItems(items, 17, 43))

\* The lambda of add_metadata applied to one row.
RowHash(cols, row) ==
    SubSeq(Sha256Hex(JsonDumps(ToDict(cols, row), KeyOrder(cols))), 1, HashLen)

add_metadata(frame, date, code) ==
    LET f1 == SetColumn(frame, ReportingDate, [r \in DOMAIN frame.rows |-> Str(date)])
        f2 == SetColumn(f1, ProductCode, [r \in DOMAIN f1.rows |-> Str(code)])
    IN  SetColumn(f2, LineageHash,
            [r \in DOMAIN f2.rows |-> Str(RowHash(f2.cols, f2.rows[r]))])

(***************************************************************************)
(* generate_narrative                                                      *)
(***************************************************************************)
WarningSentence == "WARNING: Variance exceeds 5% threshold. Management review required."
ToleranceSentence == "Variance within acceptable tolerance."

NoSummary ==
    [narrative |-> <<>>, total_balance |-> 0, variance |-> 0,
     variance_pct |-> [num |-> 0, den |-> 1],
     avg_util |-> [num |-> 0, den |-> 0], delinq_rate |-> [num |-> 0, den |-> 0],
     accounts |-> 0]

\* Series.sum() and the number of values summed: missing values are skipped.
RECURSIVE SumCells(_)
SumCells(cells) ==
    IF cells = <<>> THEN 0
    ELSE (IF IsNum(Head(cells)) THEN Head(cells).n ELSE 0) + SumCells(Tail(cells))

\* The same sum over amounts of whole cents, in cents.
RECURSIVE SumCents(_)
SumCents(cells) ==
    IF cells = <<>> THEN 0
    ELSE (IF IsNum(Head(cells)) THEN Head(cells).n \div 100 ELSE 0)
         + SumCents(Tail(cells))

CountCells(cells) == Cardinality({r \in DOMAIN cells : IsNum(cells[r])})

\* variance / gl_control * 100 as the exact fraction 100 * num / den;
\* 0.0 when gl_control is falsy.
VariancePct(variance, gl) ==
    IF gl # 0 THEN [num |-> variance, den |-> gl] ELSE [num |-> 0, den |-> 1]

\* The difference taken without abs().
AbsOmitted(x) == x

Abs(x) == IF x < 0 THEN 0 - x ELSE x

\* A threshold test that also flags a variance of exactly 5%.
ExceedsThresholdOrEqual(p) ==
    IF p.den > 0 THEN p.num >= p.den \div 20 + (IF p.den % 20 = 0 THEN 0 ELSE 1)
    ELSE p.num <= 0 /\ (0 - p.num) >= (0 - p.den) \div 20

\* variance_pct > 5, on the fraction: 100 * num / den > 5.
ExceedsThreshold(p) ==
    IF p.den > 0 THEN p.num > p.den \div 20
    ELSE p.num < 0 /\ (0 - p.num) > (0 - p.den) \div 20

\* The narrative: the lines of the template, then the verdict sentence.
NarrativeText(p) ==
    <<"Y-14M CREDIT CARD PORTFOLIO SUMMARY", "PORTFOLIO METRICS:",
      "CONTROL RECONCILIATION:",
      IF ExceedsThreshold(p) THEN WarningSentence ELSE ToleranceSentence>>

\* A generate_narrative whose delinquency figure is the mean of the counts,
\* not the share of the accounts with a positive count.
generate_narrative_dpd_mean(frame, date, code, gl) ==
    LET e == FirstError(<<OperandError(frame, OutstandingBalance),
                          OperandError(frame, RevolvingUtil),
                          IF HasColumn(frame, DPD30_59)
                             /\ Cardinality(Positions(frame, DPD30_59)) > 1
                          THEN Error("TypeError", PandasTypeErrorText)
                          ELSE OperandError(frame, DPD30_59)>>)
        bal == Column(frame, OutstandingBalance)
        util == Column(frame, RevolvingUtil)
        dpd == Column(frame, DPD30_59)
        total_balance == SumCents(bal)
        variance == Abs(gl - total_balance)
        variance_pct == VariancePct(variance, gl)
    IN  IF e # NoError THEN [err |-> e, summary |-> NoSummary]
        ELSE [err |-> NoError,
              summary |->
                [narrative |-> NarrativeText(variance_pct),
                 total_balance |-> total_balance,
                 variance |-> variance,
                 variance_pct |-> variance_pct,
                 avg_util |-> [num |-> SumCells(util), den |-> CountCells(util)],
                 delinq_rate |->
                    [num |-> SumCells(dpd) \div Scale, den |-> CountCells(dpd)],
                 accounts |-> Len(frame.rows)]]

\* gl is in cents.  The result carries the error raised, if any, and the
\* three values returned with the figures the narrative embeds.
generate_narrative(frame, date, code, gl) ==
    LET e == FirstError(<<OperandError(frame, OutstandingBalance),
                          OperandError(frame, RevolvingUtil),
                          IF HasColumn(frame, DPD30_59)
                             /\ Cardinality(Positions(frame, DPD30_59)) > 1
                          THEN Error("TypeError", PandasTypeErrorText)
                          ELSE OperandError(frame, DPD30_59)>>)
        bal == Column(frame, OutstandingBalance)
        util == Column(frame, RevolvingUtil)
        dpd == Column(frame, DPD30_59)
        total_balance == SumCents(bal)
        variance == Abs(gl - total_balance)
        variance_pct == VariancePct(variance, gl)
    IN  IF e # NoError THEN [err |-> e, summary |-> NoSummary]
        ELSE [err |-> NoError,
              summary |->
                [narrative |-> NarrativeText(variance_pct),
                 total_balance |-> total_balance,
                 variance |-> variance,
                 variance_pct |-> variance_pct,
                 avg_util |-> [num |-> SumCells(util), den |-> CountCells(util)],
                 delinq_rate |->
                    [num |-> Cardinality({r \in DOMAIN dpd :
                                            IsNum(dpd[r]) /\ dpd[r].n > 0}),
                     den |-> Len(dpd)],
                 accounts |-> Len(frame.rows)]]

(***************************************************************************)
(* auto_alias_columns_strict                                               *)
(***************************************************************************)
UtilSynonyms ==
    { <<"r","e","v","o","l","v","i","n","g","u","t","i","l">>,
      <<"u","t","i","l","i","z","a","t","i","o","n","r","a","t","e">>,
      <<"u","t","i","l","i","z","a","t","i","o","n">>,
      <<"r","e","v","o","l","v","i","n","g","u","t","i","l","i","z","a","t","i","o","n","o","f","u","n","s","e","c","u","r","e","d","l","i","n","e","s">> }

IncomeSynonyms ==
    { <<"m","o","n","t","h","l","y","i","n","c","o","m","e">>,
      <<"i","n","c","o","m","e">>,
      <<"m","o","n","t","h","l","y","i","n","c","o","m","e","a","m","t">> }

DpdSynonyms ==
    { <<"d","p","d","3","0","5","9">>,
      <<"d","p","d","3","0","_","5","9">>,
      <<"d","p","d">>,
      <<"d","a","y","s","p","a","s","t","d","u","e","3","0","t","o","5","9">>,
      <<"n","u","m","b","e","r","o","f","t","i","m","e","s","3","0","5","9","d","a","y","s","p","a","s","t","d","u","e","n","o","t","w","o","r","s","e">> }

BalanceSynonyms ==
    { <<"c","u","r","b","a","l","a","n","c","e">>,
      <<"c","u","r","r","e","n","t","b","a","l","a","n","c","e">>,
      <<"b","a","l","a","n","c","e">>,
      <<"s","t","a","t","e","m","e","n","t","b","a","l","a","n","c","e">> }

\* c.strip().replace(...).lower()
Normalize(label) ==
    LET s == RemoveSeparators(Strip(label))
    IN  [i \in DOMAIN s |-> Lower(s[i])]

\* The if/elif chain: the canonical name of a normalized label, <<>> if none.
AliasTarget(n) ==
    IF n \in UtilSynonyms THEN RevolvingUtil
    ELSE IF n \in IncomeSynonyms THEN MonthlyIncome
    ELSE IF n \in DpdSynonyms THEN DPD30_59
    ELSE IF n \in BalanceSynonyms THEN CurrentBalance
    ELSE <<>>

\* alias_map: original label -> canonical name, for the labels that match.
AliasMap(cols) ==
    [orig \in {cols[i] : i \in {j \in DOMAIN cols : AliasTarget(Normalize(cols[j])) # <<>>}}
        |-> AliasTarget(Normalize(orig))]

\* df.rename(columns=m): every column whose label is a key of m is
\* relabelled; columns are neither merged nor dropped.
Rename(frame, m) ==
    [frame EXCEPT !.cols =
        [i \in DOMAIN frame.cols |->
            IF frame.cols[i] \in DOMAIN m THEN m[frame.cols[i]] ELSE frame.cols[i]]]

\* Series.max() > 1: some value exceeds 1 (missing values are skipped).
PercentForm(cells) == \E r \in DOMAIN cells : IsNum(cells[r]) /\ cells[r].n > Scale

\* Series / 100
Div100Cell(c) == IF IsNum(c) THEN Num(c.n \div 100) ELSE c

PandasAmbiguousText == <<"T","h","e"," ","t","r","u","t","h"," ","v","a","l","u","e"," ","o","f"," ","a"," ","S","e","r","i","e","s"," ","i","s"," ","a","m","b","i","g","u","o","u","s">>

\* With two columns labelled RevolvingUtil, df["RevolvingUtil"].max() > 1 is
\* a Series and the if statement raises ValueError.
auto_alias_columns_strict(frame) ==
    LET renamed == Rename(frame, AliasMap(frame.cols))
    IN  IF ~HasColumn(renamed, RevolvingUtil) THEN Ok(renamed)
        ELSE IF Cardinality(Positions(renamed, RevolvingUtil)) > 1
             THEN Raise("ValueError", PandasAmbiguousText)
        ELSE IF OperandError(renamed, RevolvingUtil) # NoError
             THEN [err |-> OperandError(renamed, RevolvingUtil), frame |-> NoFrame]
        ELSE IF PercentForm(Column(renamed, RevolvingUtil))
             THEN Ok(SetColumn(renamed, RevolvingUtil,
                        [r \in DOMAIN renamed.rows |->
                            Div100Cell(Column(renamed, RevolvingUtil)[r])]))
        ELSE Ok(renamed)

(***************************************************************************)
(* The upload path: column mapper, clip and safety net.                    *)
(***************************************************************************)
\* rename_map: later keys of the dict replace earlier ones; bal is <<>>
\* when the balance selector is left at <none>.
RenameMap(inc, util, dpd, bal) ==
    [label \in {inc, util, dpd} \cup (IF bal # <<>> THEN {bal} ELSE {}) |->
        IF bal # <<>> /\ label = bal THEN CurrentBalance
        ELSE IF label = dpd THEN DPD30_59
        ELSE IF label = util THEN RevolvingUtil
        ELSE MonthlyIncome]

\* Series.clip(0, 1.0)
ClipCell(c) ==
    IF IsNum(c)
    THEN Num(IF c.n < 0 THEN 0 ELSE IF c.n > Scale THEN Scale ELSE c.n)
    ELSE c

\* df_mapped["RevolvingUtil"] = df_mapped["RevolvingUtil"].clip(0, 1.0):
\* every column with that label is clipped.
ClipUtil(frame) ==
    [frame EXCEPT !.rows =
        [r \in DOMAIN frame.rows |->
            [i \in DOMAIN frame.cols |->
                IF frame.cols[i] = RevolvingUtil THEN ClipCell(frame.rows[r][i])
                ELSE frame.rows[r][i]]]]

\* Lines 181-195: the mapped and clipped frame; err is the exception raised,
\* stop tells that the safety net ended the run.
MapColumns(frame, inc, util, dpd, bal) ==
    LET mapped == Rename(frame, RenameMap(inc, util, dpd, bal))
    IN  IF ~HasColumn(mapped, RevolvingUtil)
        THEN [err |-> Error("KeyError", RevolvingUtil), stop |-> FALSE, frame |-> NoFrame]
        ELSE IF \E i \in Positions(mapped, RevolvingUtil) :
                    \E r \in DOMAIN mapped.rows : IsStr(mapped.rows[r][i])
        THEN [err |-> Error("TypeError", PandasTypeErrorText), stop |-> FALSE,
              frame |-> NoFrame]
        ELSE IF Missing(ClipUtil(mapped)) # <<>>
        THEN [err |-> NoError, stop |-> TRUE, frame |-> NoFrame]
        ELSE [err |-> NoError, stop |-> FALSE, frame |-> ClipUtil(mapped)]

(***************************************************************************)
(* Inputs.  An account gives the value of each field; a layout is the      *)
(* sequence of columns of a file or frame, each with its label h and the   *)
(* field f that fills it.                                                  *)
(***************************************************************************)
Accounts ==
    { [inc |-> Dollars(5000), util |-> Num(4000), dpd |-> Dollars(0),
       bal |-> Num(12345650), alt |-> Num(2500), name |-> Str(<<"a">>)],
      [inc |-> Dollars(6000), util |-> Num(5000), dpd |-> Dollars(10),
       bal |-> NaN, alt |-> Num(7500), name |-> Str(<<"b">>)],
      [inc |-> Dollars(5), util |-> Num(50), dpd |-> Dollars(0),
       bal |-> Num(100150), alt |-> Num(2500), name |-> Str(<<"c">>)],
      [inc |-> Str(<<"a","b","c">>), util |-> Num(3000), dpd |-> Dollars(5),
       bal |-> Dollars(100), alt |-> Num(2500), name |-> Str(<<"d">>)],
      [inc |-> Dollars(50), util |-> Dollars(40), dpd |-> Dollars(0),
       bal |-> Dollars(250), alt |-> Num(7500), name |-> Str(<<"e">>)],
      [inc |-> Dollars(50), util |-> Dollars(250), dpd |-> Dollars(1),
       bal |-> NaN, alt |-> Dollars(30), name |-> Str(<<"f">>)],
      [inc |-> Dollars(1900), util |-> Num(5000), dpd |-> Dollars(0),
       bal |-> Dollars(2100), alt |-> Num(2500), name |-> Str(<<"g">>)] }

\* The sequences of 1..MaxRows accounts.
AccountSeqs == UNION {[1..n -> Accounts] : n \in 1..MaxRows}

\* The accounts of uploaded files: utilization as a fraction, as a
\* percentage, and as a percentage above 100.
UploadAccounts == {a \in Accounts : a.name.s \in {<<"a">>, <<"e">>, <<"f">>}}

UploadSeqs == UNION {[1..n -> UploadAccounts] : n \in 1..MaxRows}

FullLayout ==
    <<[h |-> MonthlyIncome, f |-> "inc"], [h |-> RevolvingUtil, f |-> "util"],
      [h |-> DPD30_59, f |-> "dpd"], [h |-> CurrentBalance, f |-> "bal"]>>

\* Frames a caller hands to process_pipeline: every subset of the four
\* canonical columns, and two other column orders.
DirectLayouts ==
    {SelectSeq(FullLayout, LAMBDA c : c.f \in S) :
        S \in SUBSET {"inc", "util", "dpd", "bal"}}
    \cup {<<FullLayout[4], FullLayout[3], FullLayout[2], FullLayout[1]>>,
          <<FullLayout[3], FullLayout[1], FullLayout[2]>>}

\* Headers of uploaded files.
UploadLayouts ==
    { <<[h |-> <<"M","o","n","t","h","l","y"," ","I","n","c","o","m","e">>, f |-> "inc"],
        [h |-> <<"U","t","i","l","i","z","a","t","i","o","n">>, f |-> "util"],
        [h |-> <<"D","P","D">>, f |-> "dpd"]>>,
      <<[h |-> <<" ","d","p","d","_","3","0","-","5","9"," ">>, f |-> "dpd"],
        [h |-> <<"I","N","C","O","M","E">>, f |-> "inc"],
        [h |-> <<"r","e","v","o","l","v","i","n","g","-","u","t","i","l">>, f |-> "util"],
        [h |-> <<"B","a","l","a","n","c","e">>, f |-> "bal"]>>,
      <<[h |-> <<"I","n","c","o","m","e">>, f |-> "alt"],
        [h |-> <<"M","o","n","t","h","l","y","I","n","c","o","m","e">>, f |-> "inc"],
        [h |-> <<"U","t","i","l","i","z","a","t","i","o","n">>, f |-> "util"],
        [h |-> <<"D","P","D">>, f |-> "dpd"]>>,
      <<[h |-> <<"U","t","i","l","i","z","a","t","i","o","n">>, f |-> "alt"],
        [h |-> <<"R","e","v","o","l","v","i","n","g"," ","U","t","i","l">>, f |-> "util"],
        [h |-> <<"I","n","c","o","m","e">>, f |-> "inc"],
        [h |-> <<"D","P","D">>, f |-> "dpd"]>>,
      <<[h |-> <<"D","P","D">>, f |-> "dpd"],
        [h |-> <<"i","n","c","o","m","e">>, f |-> "inc"],
        [h |-> <<"u","t","i","l">>, f |-> "util"]>>,
      <<[h |-> <<"N","a","m","e">>, f |-> "name"],
        [h |-> <<"D","P","D">>, f |-> "dpd"],
        [h |-> <<"I","n","c","o","m","e">>, f |-> "inc"],
        [h |-> <<"U","t","i","l","i","z","a","t","i","o","n"," ","R","a","t","e">>, f |-> "util"]>> }

\* The frame of a layout and a sequence of accounts.
Frame(layout, accts) ==
    [cols |-> [i \in DOMAIN layout |-> layout[i].h],
     rows |-> [r \in DOMAIN accts |-> [i \in DOMAIN layout |-> accts[r][layout[i].f]]]]

\* The hardcoded sample of lines 288-292.
SampleFrame ==
    [cols |-> <<MonthlyIncome, RevolvingUtil, DPD30_59>>,
     rows |-> << <<Dollars(5000), Num(4000), Dollars(0)>>,
                 <<Dollars(6000), Num(5000), Dollars(10)>>,
                 <<Dollars(7000), Num(3000), Dollars(0)>>,
                 <<Dollars(5500), Num(4500), Dollars(0)>>,
                 <<Dollars(6200), Num(5500), Dollars(5)>> >>]

\* 20_000_000 dollars, in cents.
DEFAULT_GL_CONTROL == 2000000000

\* The control totals tried against a processed frame, in cents: zero, one
\* dollar, one dollar overdrawn, 10,000,000 dollars, the sidebar default,
\* the total of the frame itself, and the totals the frame's total misses
\* by exactly one twentieth (5%) from below and from above.
ControlTotals(frame) ==
    {0, 100, 0 - 100, 1000000000, DEFAULT_GL_CONTROL}
    \cup (IF OperandError(frame, OutstandingBalance) = NoError
          THEN LET total == SumCents(Column(frame, OutstandingBalance))
               IN  {total}
                   \cup {g \in {(total * 20) \div 19} : g * 19 = total * 20}
                   \cup {g \in {(total * 20) \div 21} : g * 21 = total * 20}
          ELSE {})

(***************************************************************************)
(* The state machine.  pc is the position of the script run.               *)
(***************************************************************************)
Init ==
    /\ pc = "idle"
    /\ path = "none"
    /\ raw = NoFrame
    /\ arg = NoFrame
    /\ df = NoFrame
    /\ stages = <<>>
    /\ err = NoError
    /\ result = NoFrame
    /\ returned = FALSE
    /\ reporting_date = DEFAULT_REPORTING_DATE
    /\ product_code = DEFAULT_PRODUCT_CODE
    /\ gl_control = 0
    /\ summary = NoSummary

\* Line 161: an uploaded file is read.
Upload ==
    /\ pc = "idle"
    /\ \E layout \in UploadLayouts, accts \in UploadSeqs :
        /\ df' = Frame(layout, accts)
        /\ raw' = Frame(layout, accts)
    /\ pc' = "loaded"
    /\ path' = "upload"
    /\ UNCHANGED <<arg, stages, err, result, returned, reporting_date,
                   product_code, gl_control, summary>>

\* Line 162.
AutoAlias ==
    /\ pc = "loaded"
    /\ LET out == auto_alias_columns_strict(df)
       IN  /\ err' = out.err
           /\ df' = out.frame
           /\ pc' = IF out.err = NoError THEN "aliased" ELSE "failed"
    /\ stages' = Append(stages, "auto_alias_columns_strict")
    /\ UNCHANGED <<raw, path, arg, result, returned, reporting_date, product_code,
                   gl_control, summary>>

\* Lines 168-206: the selections of the column mapper, the rename, the clip
\* and the safety net; process_pipeline is then called on df_mapped.
Mapper ==
    /\ pc = "aliased"
    /\ \E inc \in {df.cols[i] : i \in DOMAIN df.cols},
          util \in {df.cols[i] : i \in DOMAIN df.cols},
          dpd \in {df.cols[i] : i \in DOMAIN df.cols},
          bal \in {df.cols[i] : i \in DOMAIN df.cols} \cup {<<>>} :
        LET out == MapColumns(df, inc, util, dpd, bal)
        IN  /\ err' = out.err
            /\ df' = out.frame
            /\ arg' = out.frame
            /\ pc' = IF out.err # NoError THEN "failed"
                     ELSE IF out.stop THEN "stopped" ELSE "pipeline"
    /\ UNCHANGED <<raw, path, stages, result, returned, reporting_date, product_code,
                   gl_control, summary>>

\* Lines 288-314: the sample frame goes straight to process_pipeline.
Sample ==
    /\ pc = "idle"
    /\ df' = SampleFrame
    /\ raw' = SampleFrame
    /\ arg' = SampleFrame
    /\ pc' = "pipeline"
    /\ path' = "sample"
    /\ UNCHANGED <<stages, err, result, returned, reporting_date, product_code,
                   gl_control, summary>>

\* The frames a caller of the core hands over: the layouts filled with
\* accounts, and the five sample rows.
DirectFrames ==
    {Frame(layout, accts) : layout \in DirectLayouts, accts \in AccountSeqs}
    \cup {SampleFrame}

\* A caller of the core hands a frame of its own to process_pipeline.
Direct ==
    /\ pc = "idle"
    /\ \E frame \in DirectFrames :
        /\ df' = frame
        /\ raw' = frame
        /\ arg' = frame
    /\ pc' = "pipeline"
    /\ path' = "direct"
    /\ UNCHANGED <<stages, err, result, returned, reporting_date, product_code,
                   gl_control, summary>>

\* A process_pipeline that goes to calculate_balances without validating.
ValidateOmitted ==
    /\ pc = "pipeline"
    /\ pc' = "validated"
    /\ UNCHANGED <<raw, path, arg, df, stages, err, result, returned,
                   reporting_date, product_code, gl_control, summary>>

\* Line 50.
Validate ==
    /\ pc = "pipeline"
    /\ err' = validate_data(df)
    /\ pc' = IF validate_data(df) = NoError THEN "validated" ELSE "failed"
    /\ stages' = Append(stages, "validate_data")
    /\ UNCHANGED <<raw, path, arg, df, result, returned, reporting_date, product_code,
                   gl_control, summary>>

\* Line 51: calculate_balances works on a copy, the argument is untouched.
Calculate ==
    /\ pc = "validated"
    /\ LET out == calculate_balances(df)
       IN  /\ err' = out.err
           /\ df' = out.frame
           /\ pc' = IF out.err = NoError THEN "calculated" ELSE "failed"
    /\ stages' = Append(stages, "calculate_balances")
    /\ UNCHANGED <<raw, path, arg, result, returned, reporting_date, product_code,
                   gl_control, summary>>

\* Line 52: add_metadata, whose value process_pipeline returns.
Tag ==
    /\ pc = "calculated"
    /\ df' = add_metadata(df, reporting_date, product_code)
    /\ result' = add_metadata(df, reporting_date, product_code)
    /\ returned' = TRUE
    /\ pc' = "tagged"
    /\ stages' = Append(stages, "add_metadata")
    /\ UNCHANGED <<raw, path, arg, err, reporting_date, product_code, gl_control,
                   summary>>

\* Lines 212 and 315-323: the sample path reconciles against the computed
\* total, the other paths against the control total given.
Narrate ==
    /\ pc = "tagged"
    /\ \E gl \in IF path = "sample"
                 THEN {SumCents(Column(result, OutstandingBalance))}
                 ELSE ControlTotals(result) :
        LET out == generate_narrative(result, reporting_date, product_code, gl)
        IN  /\ gl_control' = gl
            /\ err' = out.err
            /\ summary' = out.summary
            /\ pc' = IF out.err = NoError THEN "reported" ELSE "failed"
    /\ stages' = Append(stages, "generate_narrative")
    /\ UNCHANGED <<raw, path, arg, df, result, returned, reporting_date, product_code>>

\* The script ends; the next run starts from nothing.
Rerun ==
    /\ pc \in {"reported", "failed", "stopped"}
    /\ pc' = "idle"
    /\ path' = "none"
    /\ raw' = NoFrame
    /\ arg' = NoFrame
    /\ df' = NoFrame
    /\ stages' = <<>>
    /\ err' = NoError
    /\ result' = NoFrame
    /\ returned' = FALSE
    /\ gl_control' = 0
    /\ summary' = NoSummary
    /\ UNCHANGED <<reporting_date, product_code>>

Next ==
    \/ Upload
    \/ AutoAlias
    \/ Mapper
    \/ Sample
    \/ Direct
    \/ Validate
    \/ Calculate
    \/ Tag
    \/ Narrate
    \/ Rerun

Spec == Init /\ [][Next]_vars

(***************************************************************************)
(* Properties.                                                             *)
(***************************************************************************)
LastStage == IF stages = <<>> THEN "none" ELSE stages[Len(stages)]

\* The mandatory canonical fields absent from the columns of a frame.
AbsentRequired(frame) ==
    {c \in {MonthlyIncome, RevolvingUtil, DPD30_59} :
        \A i \in DOMAIN frame.cols : frame.cols[i] # c}

\* A frame with the optional balance column added, and with it removed.
WithBalance(frame) ==
    IF HasColumn(frame, CurrentBalance) THEN frame
    ELSE [cols |-> Append(frame.cols, CurrentBalance),
          rows |-> [r \in DOMAIN frame.rows |-> Append(frame.rows[r], NaN)]]

WithoutBalance(frame) ==
    LET keep == {i \in DOMAIN frame.cols : frame.cols[i] # CurrentBalance}
        RECURSIVE Pick(_, _)
        Pick(s, i) ==
            IF i > Len(s) THEN <<>>
            ELSE (IF i \in keep THEN <<s[i]>> ELSE <<>>) \o Pick(s, i + 1)
    IN  [cols |-> Pick(frame.cols, 1),
         rows |-> [r \in DOMAIN frame.rows |-> Pick(frame.rows[r], 1)]]

\* C1: right after validate_data has run on a frame, it has failed exactly
\* when some mandatory field is absent from the columns; the one error then
\* raised names every absent field and no present one; and the outcome is
\* the same with the optional CurrentBalance column added or removed.
C1_ValidateNamesEveryMissingField ==
    LastStage = "validate_data" =>
        /\ (AbsentRequired(arg) = {}) <=> (pc = "validated" /\ err = NoError)
        /\ AbsentRequired(arg) # {} =>
            /\ pc = "failed"
            /\ err.kind = "ValueError"
            /\ \A c \in {MonthlyIncome, RevolvingUtil, DPD30_59} :
                    Contains(err.msg, c) <=> c \in AbsentRequired(arg)
        /\ validate_data(WithBalance(arg)) = err
        /\ validate_data(WithoutBalance(arg)) = err

\* Validation has failed on a frame that lacks two mandatory fields and has
\* the optional balance column.
C1_Witness ==
    /\ pc = "failed"
    /\ LastStage = "validate_data"
    /\ Cardinality(AbsentRequired(arg)) = 2
    /\ HasColumn(arg, CurrentBalance)

DerivedColumns == {OutstandingBalance, ReportingDate, ProductCode, LineageHash}

\* C2: once process_pipeline has validated a frame that lacks a mandatory
\* field, the run has failed, neither calculate_balances nor add_metadata
\* has been called, no derived column exists, nothing has been returned,
\* and the frame handed in is as the caller built it.
C2_InvalidFrameAbortsPipeline ==
    (pc \notin {"idle", "loaded", "aliased", "stopped", "pipeline"}
     /\ "validate_data" \in {stages[i] : i \in DOMAIN stages}
     /\ AbsentRequired(arg) # {}) =>
        /\ pc = "failed"
        /\ LastStage = "validate_data"
        /\ ~returned
        /\ result = NoFrame
        /\ \A c \in DerivedColumns : ~HasColumn(df, c) /\ ~HasColumn(arg, c)
        /\ df = arg
        /\ path = "direct" => arg = raw

\* process_pipeline has failed in validation of a frame a caller built.
C2_Witness ==
    /\ pc = "failed"
    /\ stages = <<"validate_data">>
    /\ AbsentRequired(arg) # {}
    /\ path = "direct"

PipelineOrder == <<"validate_data", "calculate_balances", "add_metadata">>

\* The stages of process_pipeline among the stages called so far.
PipelineStages ==
    SelectSeq(stages, LAMBDA s : s \in {PipelineOrder[i] : i \in DOMAIN PipelineOrder})

\* The four stages of the specification among the stages called so far.
FourStages ==
    SelectSeq(stages, LAMBDA s :
        s \in {"auto_alias_columns_strict"} \cup {PipelineOrder[i] : i \in DOMAIN PipelineOrder})

C4_ZeroIffEqual ==
    (pc = "reported" /\ gl_control >= 0) =>
        /\ summary.variance_pct.num >= 0
        /\ summary.variance_pct.den > 0
        /\ (summary.variance_pct.num = 0) <=> (summary.total_balance = gl_control)

\* C4 as amended: for a non-negative control total the variance percentage
\* is non-negative; for a positive control total it is 0 exactly when the
\* total balance equals the control total; for the control total 0 it is 0
\* whatever the total balance.
C4_ZeroIffEqualOrNoControl ==
    (pc = "reported" /\ gl_control >= 0) =>
        /\ summary.variance_pct.num >= 0
        /\ summary.variance_pct.den > 0
        /\ gl_control > 0 =>
            ((summary.variance_pct.num = 0) <=> (summary.total_balance = gl_control))
        /\ gl_control = 0 => summary.variance_pct.num = 0

\* A report against a positive control total that the total balance equals,
\* on a path where the control total is the caller's.
C4_Witness ==
    /\ pc = "reported"
    /\ path # "sample"
    /\ gl_control > 0
    /\ summary.total_balance = gl_control
    /\ summary.variance_pct.num = 0

\* The cells of the column at position i of a frame, by row.
ColumnAt(frame, i) == [r \in DOMAIN frame.rows |-> frame.rows[r][i]]

\* C5 as stated: on the upload path, when the column of the file that
\* the resolver recognises as utilization is in percentage form (some value
\* above 1), every record reaches calculate_balances with its original
\* utilization divided by 100 and altered in no other way.
C5_PercentFormDividedBy100 ==
    (pc = "validated" /\ path = "upload") =>
        \A i \in Positions(arg, RevolvingUtil) :
            (Normalize(raw.cols[i]) \in UtilSynonyms
             /\ PercentForm(ColumnAt(raw, i))) =>
                \A r \in DOMAIN arg.rows :
                    /\ IsNum(arg.rows[r][i])
                    /\ arg.rows[r][i].n * 100 = raw.rows[r][i].n

\* C6: when calculate_balances has returned, the formula was chosen by the
\* presence of the CurrentBalance column alone.  With the column, every
\* record's OutstandingBalance is its balance rounded to the cent (within
\* half a cent of it, in whole cents), and missing where the balance is
\* missing; without it, every record's OutstandingBalance is income times
\* utilization rounded to the cent.
C6_OneFormulaPerDataset ==
    pc = "calculated" =>
        \A r \in DOMAIN df.rows :
            LET ob == Column(df, OutstandingBalance)[r]
            IN  IF \E i \in DOMAIN arg.cols : arg.cols[i] = CurrentBalance
                THEN LET b == Column(arg, CurrentBalance)[r]
                     IN  IF b.k = "num"
                         THEN /\ ob.k = "num"
                              /\ ob.n % 100 = 0
                              /\ ob.n - b.n <= 50
                              /\ b.n - ob.n <= 50
                         ELSE ob = b
                ELSE ob = MulCell(Column(arg, MonthlyIncome)[r],
                                  Column(arg, RevolvingUtil)[r])

\* calculate_balances has returned on a frame with a balance column in
\* which one balance is missing and another has fractions of a cent.
C6_Witness ==
    /\ pc = "calculated"
    /\ HasColumn(arg, CurrentBalance)
    /\ \E r \in DOMAIN arg.rows : Column(arg, CurrentBalance)[r] = NaN
    /\ \E r \in DOMAIN arg.rows :
            /\ IsNum(Column(arg, CurrentBalance)[r])
            /\ Column(arg, CurrentBalance)[r].n % 100 # 0

Reverse(s) == [i \in DOMAIN s |-> s[Len(s) + 1 - i]]

Rotate(s) == IF s = <<>> THEN s ELSE Append(Tail(s), Head(s))

\* The tagged frame without its LineageHash column, the last one.
TaggedCols == SubSeq(result.cols, 1, Len(result.cols) - 1)

TaggedRow(r) == SubSeq(result.rows[r], 1, Len(result.cols) - 1)

TaggedHash(r) == result.rows[r][Len(result.cols)]

SynonymGroup(c) ==
    IF c = RevolvingUtil THEN UtilSynonyms
    ELSE IF c = MonthlyIncome THEN IncomeSynonyms
    ELSE IF c = DPD30_59 THEN DpdSynonyms
    ELSE BalanceSynonyms

\* The raw columns whose normalized label is a spelling of c.
Spellings(c) == {i \in DOMAIN raw.cols : Normalize(raw.cols[i]) \in SynonymGroup(c)}

\* C8 as stated: when every mandatory field appears in the raw header under
\* some spelling of its synonym group, auto_alias_columns_strict returns a
\* frame in which each of the three canonical names labels exactly one
\* column, and validate_data passes on it.
C8_EachCanonicalNameOnce ==
    (LastStage = "auto_alias_columns_strict"
     /\ \A c \in {MonthlyIncome, RevolvingUtil, DPD30_59} : Spellings(c) # {}) =>
        /\ pc = "aliased"
        /\ err = NoError
        /\ \A c \in {MonthlyIncome, RevolvingUtil, DPD30_59} :
                Cardinality(Positions(df, c)) = 1
        /\ validate_data(df) = NoError

\* The greatest element of a non-empty set of positions.
Last(S) == CHOOSE i \in S : \A j \in S : j <= i

\* C9 as stated: when two or more raw columns normalize to one canonical
\* target, auto_alias_columns_strict returns without error a frame with a
\* single column of that name, holding the values of the last of them
\* (divided by 100 where the percentage normalization applied).
C9_LastCollidingColumnWins ==
    LastStage = "auto_alias_columns_strict" =>
        \A c \in {MonthlyIncome, RevolvingUtil, DPD30_59, CurrentBalance} :
            Cardinality(Spellings(c)) >= 2 =>
                /\ pc = "aliased"
                /\ err = NoError
                /\ Cardinality(Positions(df, c)) = 1
                /\ \/ Column(df, c) = ColumnAt(raw, Last(Spellings(c)))
                   \/ /\ c = RevolvingUtil
                      /\ Column(df, c)
                            = [r \in DOMAIN raw.rows |->
                                Div100Cell(raw.rows[r][Last(Spellings(c))])]

NumericFields == {MonthlyIncome, RevolvingUtil, DPD30_59, CurrentBalance}

\* The places (column, row) of a numeric field of a frame that hold a text.
TextPlaces(frame) ==
    {p \in (DOMAIN frame.cols) \X (DOMAIN frame.rows) :
        frame.cols[p[1]] \in NumericFields /\ IsStr(frame.rows[p[2]][p[1]])}

\* C10 as stated: once validation has passed, calculate_balances and
\* add_metadata fail only on a text in a numeric field, and then with a
\* MalformedValue error whose message names the field and the row (rows
\* are numbered from 0).
C10_OnlyMalformedValueAfterValidation ==
    (pc = "failed" /\ LastStage \in {"calculate_balances", "add_metadata"}) =>
        /\ err.kind = "MalformedValue"
        /\ \E p \in TextPlaces(arg) :
                /\ Contains(err.msg, arg.cols[p[1]])
                /\ Contains(err.msg, Numeral(p[2] - 1))

VerdictSentences == {WarningSentence, ToleranceSentence}

\* The lines of a narrative that are the sentence given.
LinesOf(text, sentence) == {i \in DOMAIN text : text[i] = sentence}

\* The returned percentage 100 * num / den is strictly greater than 5:
\* num / den > 1 / 20, whatever the sign of the control total den.
Over5(p) ==
    \/ p.den > 0 /\ p.num > p.den \div 20
    \/ p.den < 0 /\ p.num < 0 /\ (0 - p.num) > (0 - p.den) \div 20

\* The variance is exactly one twentieth (5%) of a positive control total.
Exactly5 ==
    /\ gl_control > 0
    /\ gl_control % 20 = 0
    /\ summary.variance = gl_control \div 20

\* C11: the narrative generate_narrative returns ends with exactly one of
\* the two verdict sentences: the warning sentence if and only if the
\* returned variance percentage is strictly greater than 5, the in-tolerance
\* sentence otherwise; a variance of exactly 5% and a control total of 0
\* both give the in-tolerance sentence.
C11_WarningIffOver5 ==
    pc = "reported" =>
        LET text == summary.narrative
        IN  /\ text # <<>>
            /\ Cardinality({i \in DOMAIN text : text[i] \in VerdictSentences}) = 1
            /\ text[Len(text)] \in VerdictSentences
            /\ (text[Len(text)] = WarningSentence) <=> Over5(summary.variance_pct)
            /\ (text[Len(text)] = ToleranceSentence) <=> ~Over5(summary.variance_pct)
            /\ Exactly5 => text[Len(text)] = ToleranceSentence
            /\ gl_control = 0 => text[Len(text)] = ToleranceSentence

\* A report whose variance is exactly 5% of the control total, with the
\* total balance away from the control total, ending in tolerance.
C11_Witness ==
    /\ pc = "reported"
    /\ Exactly5
    /\ summary.total_balance # gl_control
    /\ summary.narrative[Len(summary.narrative)] = ToleranceSentence

\* Reports over 5%, on a zero control total and on a negative one.
C11_WarningReached ==
    pc = "reported" /\ summary.narrative[Len(summary.narrative)] = WarningSentence

C11_ZeroControlReached ==
    pc = "reported" /\ gl_control = 0 /\ summary.total_balance > 0

C11_NegativeControlReached ==
    pc = "reported" /\ gl_control < 0

\* The report of the five sample rows, handed to process_pipeline without
\* a balance column.
SampleReport ==
    /\ pc = "reported"
    /\ arg = SampleFrame
    /\ ~HasColumn(arg, CurrentBalance)

\* C12: on the five sample rows the total outstanding balance is 12985.00
\* and the delinquency incidence 2/5; with the control total set to the
\* computed total the variance amount and percentage are 0 and the
\* narrative holds the in-tolerance sentence and not the warning; with the
\* control total 10,000,000 the narrative holds the warning sentence.
C12_SampleRowsEndToEnd ==
    SampleReport =>
        /\ summary.total_balance = 12985 * 100
        /\ summary.delinq_rate = [num |-> 2, den |-> 5]
        /\ gl_control = summary.total_balance =>
                /\ summary.variance = 0
                /\ summary.variance_pct.num = 0
                /\ summary.variance_pct.den > 0
                /\ LinesOf(summary.narrative, ToleranceSentence) # {}
                /\ LinesOf(summary.narrative, WarningSentence) = {}
        /\ gl_control = 10000000 * 100 =>
                LinesOf(summary.narrative, WarningSentence) # {}

\* The sample rows reported against the control total 10,000,000.
C12_Witness ==
    /\ SampleReport
    /\ gl_control = 10000000 * 100
    /\ LinesOf(summary.narrative, WarningSentence) # {}

\* The sample path itself, reported against its own computed total.
C12_SamplePathReached ==
    /\ SampleReport
    /\ path = "sample"
    /\ gl_control = summary.total_balance
    /\ LinesOf(summary.narrative, ToleranceSentence) # {}

====
